---- MODULE Spec2Model ----
(***************************************************************************)
(* Model of the slash-command webhook of pkg/slack (bot.go, help.go) with  *)
(* the echo handler of pkg/handlers.  Go strings are TLA+ strings; a byte  *)
(* of a string s is SubSeq(s, i, i).                                       *)
(***************************************************************************)
EXTENDS Integers, Sequences, FiniteSets, TLC

\* ------------------------------------------------------------- bounds
\* Longest command text enumerated for the parsing specification.
MaxTextLen == 4
\* Clock resolution: the model's clock ticks this many times per second
\* (the code's clock has nanosecond resolution).
TicksPerSecond == 2

\* ------------------------------------------------------------- strings
Char(s, i) == SubSeq(s, i, i)

\* strings.Index for a one-byte separator: first position of sep, 0 if none.
RECURSIVE IndexFrom(_, _, _)
IndexFrom(s, sep, i) ==
    IF i > Len(s) THEN 0
    ELSE IF Char(s, i) = sep THEN i
    ELSE IndexFrom(s, sep, i + 1)

Index(s, sep) == IndexFrom(s, sep, 1)

\* strings.Split(s, sep) for a one-byte sep: every piece between separators,
\* empty pieces included; a string without sep gives the one-element <<s>>.
RECURSIVE Split(_, _)
Split(s, sep) ==
    LET i == Index(s, sep) IN
    IF i = 0 THEN <<s>>
    ELSE <<SubSeq(s, 1, i - 1)>> \o Split(SubSeq(s, i + 1, Len(s)), sep)

\* strings.Join(elems, sep)
RECURSIVE Join(_, _)
Join(elems, sep) ==
    IF Len(elems) = 0 THEN ""
    ELSE IF Len(elems) = 1 THEN elems[1]
    ELSE elems[1] \o sep \o Join(Tail(elems), sep)

Digits == {"0", "1", "2", "3", "4", "5", "6", "7", "8", "9"}

DigitVal(c) ==
    CASE c = "0" -> 0 [] c = "1" -> 1 [] c = "2" -> 2 [] c = "3" -> 3
      [] c = "4" -> 4 [] c = "5" -> 5 [] c = "6" -> 6 [] c = "7" -> 7
      [] c = "8" -> 8 [] c = "9" -> 9

RECURSIVE AllDigits(_)
AllDigits(s) ==
    \/ s = ""
    \/ Head(s) \in Digits /\ AllDigits(Tail(s))

RECURSIVE DigitsVal(_, _)
DigitsVal(s, acc) ==
    IF s = "" THEN acc ELSE DigitsVal(Tail(s), acc * 10 + DigitVal(Head(s)))

\* strconv.ParseInt(s, 10, 64): an optional sign, then one or more decimal
\* digits; anything else is a syntax error.  (The range error needs more
\* than 18 digits, beyond the headers enumerated here.)
ParseInt(s) ==
    LET signed == s # "" /\ Head(s) \in {"+", "-"}
        mag    == IF signed THEN Tail(s) ELSE s
    IN  IF mag = "" \/ ~AllDigits(mag)
        THEN [err |-> TRUE, val |-> 0]
        ELSE [err |-> FALSE,
              val |-> IF signed /\ Head(s) = "-"
                      THEN 0 - DigitsVal(mag, 0) ELSE DigitsVal(mag, 0)]


\* ------------------------------------------------------------- replay window
\* bot.go:102, the replay window in seconds.
ReplayWindowSeconds == 300

\* time.Since(time.Unix(ts, 0)): the time elapsed from the header's instant
\* to the clock reading nowTicks, in clock ticks; negative for a timestamp in
\* the future.  (A difference beyond the range of a Duration saturates at the
\* largest or smallest Duration, far outside the window either way.)
Since(nowTicks, ts) == nowTicks - ts * TicksPerSecond

\* Duration.Abs
Abs(d) == IF d < 0 THEN 0 - d ELSE d

OutsideReplayWindowNoAbs(nowTicks, ts) ==
    Since(nowTicks, ts) > ReplayWindowSeconds * TicksPerSecond

\* bot.go:101-102: timeDiffInSeconds > 300, the difference taken as a
\* fractional number of seconds.
OutsideReplayWindow(nowTicks, ts) ==
    Abs(Since(nowTicks, ts)) > ReplayWindowSeconds * TicksPerSecond

\* ------------------------------------------------------------- signature
BaseStringNoTimestamp(timestampHeader, body) == "v0:" \o body

\* fmt.Sprintf("v0:%s:%s", timestampHeader, body)
BaseString(timestampHeader, body) == "v0:" \o timestampHeader \o ":" \o body

\* hex.EncodeToString(HMAC-SHA256(key, msg)).  The MAC is ideal: the digest
\* is a term over the key and the message, so that two digests are equal
\* exactly when the keys and the messages are.
HmacSha256Hex(key, msg) == "mac<" \o key \o ">(" \o msg \o ")"

\* bot.go:115-124; a hash's Write returns no error, so the branch of
\* bot.go:118-121 is not taken.
ComputeSignature(signingKey, timestampHeader, body) ==
    "v0=" \o HmacSha256Hex(signingKey, BaseString(timestampHeader, body))

SignatureMatchesPrefix(computed, provided) ==
    SubSeq(computed, 1, 3) = SubSeq(provided, 1, 3)

\* bot.go:127, the comparison of the computed and the provided signature.
SignatureMatches(computed, provided) == computed = provided

\* The first position at which two strings of one length differ, from i on.
RECURSIVE FirstDifference(_, _, _)
FirstDifference(a, b, i) ==
    IF i > Len(a) THEN 0
    ELSE IF Char(a, i) # Char(b, i) THEN i
    ELSE FirstDifference(a, b, i + 1)

\* bot.go:127: how many bytes of the two strings the != of the language may
\* look at.  Strings of different lengths are unequal without a look at
\* their bytes; for strings of one length the bytes are compared from the
\* front, and the comparison may stop at the first difference or, comparing
\* several bytes at a time, anywhere after it.
BytesExamined(computed, provided) ==
    IF Len(computed) # Len(provided) THEN {0}
    ELSE IF computed = provided THEN {Len(computed)}
    ELSE FirstDifference(computed, provided, 1) .. Len(computed)

\* ------------------------------------------------------------- form body
HexDigits == Digits \cup {"A", "B", "C", "D", "E", "F", "a", "b", "c", "d", "e", "f"}

\* The byte a %XX escape stands for; escapes outside the table decode to an
\* opaque byte.
PercentDecode(xx) ==
    CASE xx = "20" -> " "
      [] xx \in {"2B", "2b"} -> "+"
      [] xx = "26" -> "&"
      [] xx \in {"3D", "3d"} -> "="
      [] xx = "25" -> "%"
      [] xx \in {"3A", "3a"} -> ":"
      [] xx \in {"2F", "2f"} -> "/"
      [] OTHER -> "<" \o xx \o ">"

\* url.QueryUnescape: "+" is a space, %XX a byte, a "%" not followed by two
\* hex digits an error.
RECURSIVE QueryUnescape(_)
QueryUnescape(s) ==
    IF s = "" THEN [err |-> FALSE, val |-> ""]
    ELSE IF Head(s) = "%"
    THEN IF Len(s) < 3 \/ Char(s, 2) \notin HexDigits \/ Char(s, 3) \notin HexDigits
         THEN [err |-> TRUE, val |-> ""]
         ELSE CHOOSE unescaped \in
                 {[QueryUnescape(rest) EXCEPT !.val = PercentDecode(SubSeq(s, 2, 3)) \o @] :
                     rest \in {SubSeq(s, 4, Len(s))}} : TRUE
    ELSE CHOOSE unescaped \in
             {[QueryUnescape(rest)
                  EXCEPT !.val = (IF Head(s) = "+" THEN " " ELSE Head(s)) \o @] :
                 rest \in {Tail(s)}} : TRUE

\* strings.Cut(s, sep)
CutBefore(s, sep) ==
    LET i == Index(s, sep) IN IF i = 0 THEN s ELSE SubSeq(s, 1, i - 1)

CutAfter(s, sep) ==
    LET i == Index(s, sep) IN IF i = 0 THEN "" ELSE SubSeq(s, i + 1, Len(s))

\* url.ParseQuery, as http.Request.ParseForm applies it to the body of a
\* POST: the key=value settings between "&", in order; err is set when a
\* setting holds a ";" or a bad escape (the setting is then skipped).
RECURSIVE ParseQuery(_)
ParseQuery(query) ==
    IF query = "" THEN [err |-> FALSE, pairs |-> <<>>]
    ELSE CHOOSE parsed \in
            {LET key   == QueryUnescape(CutBefore(setting, "="))
                 value == QueryUnescape(CutAfter(setting, "="))
                 rest  == ParseQuery(after)
             IN  IF Index(setting, ";") # 0 THEN [rest EXCEPT !.err = TRUE]
                 ELSE IF setting = "" THEN rest
                 ELSE IF key.err \/ value.err THEN [rest EXCEPT !.err = TRUE]
                 ELSE [rest EXCEPT !.pairs = <<<<key.val, value.val>>>> \o @] :
                setting \in {CutBefore(query, "&")}, after \in {CutAfter(query, "&")}} : TRUE

\* bot.go:144-147: undecodedForm[key] = element[0], the first value of key;
\* a key the form does not hold is absent, which decodes to "".
RECURSIVE FirstValue(_, _)
FirstValue(pairs, key) ==
    IF Len(pairs) = 0 THEN ""
    ELSE IF pairs[1][1] = key THEN pairs[1][2]
    ELSE FirstValue(Tail(pairs), key)

\* mapstructure.Decode(undecodedForm, &slashCommandBody), bot.go:148-149; the
\* fields follow the struct tags of SlackSlashCommandBody.
DecodeBody(pairs) ==
    [Command     |-> FirstValue(pairs, "command"),
     Text        |-> FirstValue(pairs, "text"),
     ResponseURL |-> FirstValue(pairs, "response_url"),
     TriggerID   |-> FirstValue(pairs, "trigger_id"),
     UserID      |-> FirstValue(pairs, "user_id"),
     APIAppID    |-> FirstValue(pairs, "api_add_id"),
     SSLCheck    |-> FirstValue(pairs, "ssl_check")]

\* ------------------------------------------------------------- command text
SplitCommandTextFields(text) == SelectSeq(Split(text, " "), LAMBDA piece : piece # "")

\* bot.go:161
SplitCommandText(text) == Split(text, " ")

\* bot.go:162-165
CommandOf(commandTextSplit) ==
    IF Len(commandTextSplit) > 0 THEN commandTextSplit[1] ELSE "help"

ArgumentsOfWholeSplit(commandTextSplit) == commandTextSplit

\* bot.go:166-169
ArgumentsOf(commandTextSplit) ==
    IF Len(commandTextSplit) > 1 THEN Tail(commandTextSplit) ELSE <<>>

\* ------------------------------------------------------------- handlers
\* EchoHandler of pkg/handlers: its name, argument description, description.
EchoHandler ==
    [kind |-> "echo", name |-> "echo", arguments |-> "[words...]",
     description |-> "Accepts any number of arguments and echoes them back to the channel",
     errText |-> ""]

\* HelpHandler of help.go:33-43.
HelpHandler ==
    [kind |-> "help", name |-> "help", arguments |-> "",
     description |-> "Displays a list of the available commands, their arguments, and their description",
     errText |-> ""]

\* Implementations of SlackSlashCommandHandler a caller of NewSlackBot may
\* supply besides echo: one whose Handle returns an error, one that shares
\* echo's name, and one that is itself named "help".
BoomHandler ==
    [kind |-> "fail", name |-> "boom", arguments |-> "", description |-> "Always fails",
     errText |-> "boom: out of order"]

ShadowHandler ==
    [kind |-> "fail", name |-> "echo", arguments |-> "", description |-> "Shadowed",
     errText |-> "shadow"]

UserHelpHandler ==
    [kind |-> "echo", name |-> "help", arguments |-> "", description |-> "Own help",
     errText |-> ""]

AHandler ==
    [kind |-> "echo", name |-> "a", arguments |-> "[words...]", description |-> "Short echo",
     errText |-> ""]

\* The handler lists NewSlackBot is called with: the test's empty list,
\* CreateHandlers' list (echo alone), and lists with the doubles.
SuppliedHandlers ==
    { <<>>,
      <<EchoHandler>>,
      <<EchoHandler, BoomHandler, ShadowHandler, UserHelpHandler>> }

\* A handler whose reply carries a response type of its own choosing: the
\* ResponseType field of SlackResponse is a string.
PublicHandler ==
    [kind |-> "other", name |-> "A", arguments |-> "[words...]",
     description |-> "Public echo", errText |-> ""]

TextHandlers == { <<EchoHandler, AHandler, PublicHandler>> }

NewSlackBotHandlersHelpFirst(supplied) == <<HelpHandler>> \o supplied

\* bot.go:47-56: the supplied handlers followed by the help handler.
NewSlackBotHandlers(supplied) == Append(supplied, HelpHandler)

NilResponse == [nil |-> TRUE, ResponseType |-> "", Text |-> ""]

SlackResponse(responseType, text) ==
    [nil |-> FALSE, ResponseType |-> responseType, Text |-> text]

RECURSIVE HelpTextWithoutItself(_, _)
HelpTextWithoutItself(registry, i) ==
    IF i > Len(registry) - 1 THEN ""
    ELSE registry[i].name \o " " \o registry[i].arguments \o "\n"
            \o registry[i].description \o "\n"
            \o (IF i < Len(registry) - 1 THEN "\n" ELSE "")
            \o HelpTextWithoutItself(registry, i + 1)

\* help.go:18-25: the help handler holds a pointer to NewSlackBot's handlers
\* variable, which is the registry after the append, so it lists registry.
RECURSIVE HelpText(_, _)
HelpText(registry, i) ==
    IF i > Len(registry) THEN ""
    ELSE registry[i].name \o " " \o registry[i].arguments \o "\n"
            \o registry[i].description \o "\n"
            \o (IF i < Len(registry) THEN "\n" ELSE "")
            \o HelpText(registry, i + 1)

\* handler.Handle(arguments, request): the response and the error returned
\* (isErr FALSE is a nil error).
Handle(handler, arguments, request, registry) ==
    CASE handler.kind = "echo" ->
            [response |-> SlackResponse("in_channel", Join(arguments, " ")),
             isErr |-> FALSE, errText |-> ""]
      [] handler.kind = "help" ->
            [response |-> SlackResponse("ephemeral", HelpText(registry, 1)),
             isErr |-> FALSE, errText |-> ""]
      [] handler.kind = "fail" ->
            [response |-> NilResponse, isErr |-> TRUE, errText |-> handler.errText]
      [] handler.kind = "other" ->
            [response |-> SlackResponse("public", Join(arguments, " ")),
             isErr |-> FALSE, errText |-> ""]

RECURSIVE FirstMatchOrLast(_, _, _)
FirstMatchOrLast(registry, command, i) ==
    IF i > Len(registry) THEN Len(registry)
    ELSE IF registry[i].name = command THEN i
    ELSE FirstMatchOrLast(registry, command, i + 1)

RECURSIVE LastMatch(_, _, _)
LastMatch(registry, command, i) ==
    IF i > Len(registry) THEN 0
    ELSE LET later == LastMatch(registry, command, i + 1)
         IN  IF later # 0 THEN later
             ELSE IF registry[i].name = command THEN i ELSE 0

RegistryAfterHandleDropsFirst(handler, registry) ==
    IF handler.kind = "help" THEN Tail(registry) ELSE registry

\* help.go:17-31, main_test.go:33-38: what Handle leaves in the registry.
\* Echo has no access to it; the help handler reads it through its pointer
\* and does not write it.
RegistryAfterHandle(handler, registry) == registry

\* bot.go:173-174: the index of the first handler whose CommandName() equals
\* command, 0 when none does.
RECURSIVE FirstMatch(_, _, _)
FirstMatch(registry, command, i) ==
    IF i > Len(registry) THEN 0
    ELSE IF registry[i].name = command THEN i
    ELSE FirstMatch(registry, command, i + 1)

ResponseForKeepsResult(result) == result.response

\* bot.go:176-181: a handler error replaces the response.
ResponseFor(result) ==
    IF result.isErr THEN SlackResponse("ephemeral", result.errText)
    ELSE result.response

\* ------------------------------------------------------------- responder
\* encoding/json's string encoding, for the bytes replies hold here.
JsonEscapeByte(c) ==
    CASE c = "\"" -> "\\\""
      [] c = "\\" -> "\\\\"
      [] c = "\n" -> "\\n"
      [] c = "<"  -> "\\u003c"
      [] c = ">"  -> "\\u003e"
      [] c = "&"  -> "\\u0026"
      [] OTHER -> c

RECURSIVE JsonEscape(_)
JsonEscape(s) ==
    IF s = "" THEN ""
    ELSE IF Len(s) = 1 THEN JsonEscapeByte(s)
    ELSE LET h == Len(s) \div 2
         IN  JsonEscape(SubSeq(s, 1, h)) \o JsonEscape(SubSeq(s, h + 1, Len(s)))

MarshalTextFirst(responseBody) ==
    IF responseBody.nil THEN "null"
    ELSE "{\"text\":\"" \o JsonEscape(responseBody.Text) \o "\",\"response_type\":\""
            \o JsonEscape(responseBody.ResponseType) \o "\"}"

\* json.Marshal(responseBody), bot.go:194: both fields are omitempty; a nil
\* pointer marshals to null.
Marshal(responseBody) ==
    IF responseBody.nil THEN "null"
    ELSE LET rt == IF responseBody.ResponseType = "" THEN <<>>
                   ELSE <<"\"response_type\":\"" \o JsonEscape(responseBody.ResponseType) \o "\"">>
             tx == IF responseBody.Text = "" THEN <<>>
                   ELSE <<"\"text\":\"" \o JsonEscape(responseBody.Text) \o "\"">>
         IN  "{" \o Join(rt \o tx, ",") \o "}"

\* http.NewRequest fails when the URL does not parse: a URL starting with a
\* colon has no protocol scheme.
NewRequestFails(responseURL) == responseURL # "" /\ Head(responseURL) = ":"

SchemeSupported(responseURL) ==
    \/ Len(responseURL) >= 7 /\ SubSeq(responseURL, 1, 7) = "http://"
    \/ Len(responseURL) >= 8 /\ SubSeq(responseURL, 1, 8) = "https://"

\* What client.Do can end in, bot.go:208: an error (always, for a URL whose
\* scheme the client does not support), or an answer with some status.
DoOutcomes(responseURL) ==
    IF SchemeSupported(responseURL)
    THEN {[err |-> TRUE, status |-> 0],
          [err |-> FALSE, status |-> 200],
          [err |-> FALSE, status |-> 500]}
    ELSE {[err |-> TRUE, status |-> 0]}

\* bot.go:192-215: the error Respond returns, given how client.Do ended.
RespondError(responseURL, outcome) ==
    IF NewRequestFails(responseURL) THEN TRUE
    ELSE outcome.err

\* ------------------------------------------------------------- inbound requests
\* The clock reading, in seconds, around which requests arrive.
NowSeconds == 1000

FormContentType == "application/x-www-form-urlencoded"

\* The key the bot is configured with (the package test builds the bot with "abc"),
\* and a key of someone who does not know it.
ConfiguredKeys == {"abc"}
ForeignKey == "guess"

RECURSIVE Itoa(_)
Itoa(n) ==
    LET d == SubSeq("0123456789", (n % 10) + 1, (n % 10) + 1)
    IN  IF n < 10 THEN d ELSE Itoa(n \div 10) \o d

\* url.QueryEscape, as the platform encodes a form value.
QueryEscapeByte(c) ==
    CASE c = " " -> "+"
      [] c = "+" -> "%2B"
      [] c = "&" -> "%26"
      [] c = "=" -> "%3D"
      [] c = "%" -> "%25"
      [] c = ":" -> "%3A"
      [] c = "/" -> "%2F"
      [] OTHER -> c

RECURSIVE QueryEscape(_)
QueryEscape(s) ==
    IF s = "" THEN ""
    ELSE IF Len(s) = 1 THEN QueryEscapeByte(s)
    ELSE LET h == Len(s) \div 2
         IN  QueryEscape(SubSeq(s, 1, h)) \o QueryEscape(SubSeq(s, h + 1, Len(s)))

\* The form body the platform posts for a command text and a callback URL;
\* ssl is the value of the ssl_check field, "" when the field is absent.
FormBody(text, url, ssl) ==
    "user_id=U1&text=" \o QueryEscape(text)
        \o (IF url = "" THEN "" ELSE "&response_url=" \o QueryEscape(url))
        \o (IF ssl = "" THEN "" ELSE "&ssl_check=" \o ssl)

Hook1 == "https://hooks/1"
Hook2 == "https://hooks/2"

\* A body with a setting whose percent escape is not two hex digits, next
\* to a text that names a registered command.
MalformedBody == FormBody("echo a", Hook1, "") \o "&x=%zz"

CommandTexts == {"", "help", "echo a b", " echo", "boom x", "nosuch"}

Bodies ==
    {FormBody(t, Hook1, "") : t \in CommandTexts}
        \cup {FormBody("echo b", Hook2, ""),
              FormBody("echo a", Hook1, "1"),
              FormBody("echo a", "", ""),
              FormBody("echo a", ":bad", ""),
              FormBody("boom x", ":bad", ""),
              MalformedBody}

Request(method, contentType, signature, timestamp, body, readErr, nowTicks) ==
    [method |-> method, contentType |-> contentType, signature |-> signature,
     timestamp |-> timestamp, body |-> body, readErr |-> readErr,
     nowTicks |-> nowTicks]

NowTicks == NowSeconds * TicksPerSecond

\* A request as the platform sends it: signed with key over its timestamp
\* header and its body.
Signed(key, timestamp, body, nowTicks) ==
    Request("POST", FormContentType, ComputeSignature(key, timestamp, body),
            timestamp, body, FALSE, nowTicks)

\* Requests of the platform, handled within the second they were signed in.
PlatformRequests(key) ==
    {Signed(key, Itoa(NowSeconds), b, NowTicks) : b \in Bodies}

\* Requests that are late, early, altered or forged.
OtherRequests(key) ==
    LET b    == FormBody("echo a b", Hook1, "")
        good == Signed(key, Itoa(NowSeconds), b, NowTicks)
    IN  {[good EXCEPT !.method = "GET"],
         [good EXCEPT !.contentType = "application/json"],
         [good EXCEPT !.signature = ""],
         [good EXCEPT !.timestamp = ""],
         [good EXCEPT !.timestamp = "soon"],
         [good EXCEPT !.signature = "v0=00ff"],
         [good EXCEPT !.signature = ComputeSignature(ForeignKey, Itoa(NowSeconds), b)],
         [good EXCEPT !.body = FormBody("boom x", Hook1, "")],
         [good EXCEPT !.timestamp = "+" \o Itoa(NowSeconds)],
         [good EXCEPT !.readErr = TRUE],
         [good EXCEPT !.method = "GET", !.signature = ""],
         [good EXCEPT !.contentType = "text/plain", !.timestamp = "soon"],
         Signed(key, "+" \o Itoa(NowSeconds), b, NowTicks),
         Signed(key, Itoa(NowSeconds - ReplayWindowSeconds), b, NowTicks),
         Signed(key, Itoa(NowSeconds - ReplayWindowSeconds - 1), b, NowTicks),
         Signed(key, Itoa(NowSeconds + ReplayWindowSeconds + 1), b, NowTicks),
         [Signed(key, Itoa(NowSeconds - ReplayWindowSeconds - 1), b, NowTicks)
             EXCEPT !.signature = "v0=00ff"]}

\* Command texts over a small alphabet, up to MaxTextLen bytes.
TextAlphabet == {"a", "A", " "}

RECURSIVE TextsUpTo(_)
TextsUpTo(n) ==
    IF n = 0 THEN {""}
    ELSE LET shorter == TextsUpTo(n - 1)
         IN  shorter \cup {t \o c : t \in {u \in shorter : Len(u) = n - 1},
                                    c \in TextAlphabet}

TextRequests(key) ==
    {Signed(key, Itoa(NowSeconds), FormBody(t, Hook1, ""), NowTicks) :
        t \in TextsUpTo(MaxTextLen)
                 \cup {"echo hello world", "echo a  b", "echo a   b c"}}

\* Timestamps around both ends of the replay window, read at every tick of
\* the current second.
ClockOffsets ==
    {0 - ReplayWindowSeconds - 2, 0 - ReplayWindowSeconds - 1, 0 - ReplayWindowSeconds,
     1 - ReplayWindowSeconds, -1, 0, 1, ReplayWindowSeconds - 1, ReplayWindowSeconds,
     ReplayWindowSeconds + 1, ReplayWindowSeconds + 2}

ClockRequests(key) ==
    {Signed(key, Itoa(NowSeconds + d), FormBody("echo a", Hook1, ""), NowTicks + t) :
        d \in ClockOffsets, t \in 0 .. (TicksPerSecond - 1)}

\* Every combination of a timestamp header, a body and a signature header,
\* the signature being one somebody made for some timestamp and body.
SignatureTimestamps == {Itoa(NowSeconds), "+" \o Itoa(NowSeconds), Itoa(NowSeconds + 1),
                        Itoa(NowSeconds) \o ":1"}

SignatureBodies == {FormBody("echo a", Hook1, ""), FormBody("echo b", Hook1, ""),
                    "x", "1:x"}

SignatureHeaders(key) ==
    {ComputeSignature(k, t, b) :
        k \in {key, ForeignKey}, t \in SignatureTimestamps, b \in SignatureBodies}
        \cup {"v0=", "v0=00ff"}

SignatureRequests(key) ==
    {Request("POST", FormContentType, sig, t, b, FALSE, NowTicks) :
        sig \in SignatureHeaders(key), t \in SignatureTimestamps, b \in SignatureBodies}

\* Requests whose handling succeeds, fails in the handler, fails in the
\* delivery, finds no handler, or is rejected.
LiveRequests(key) ==
    {Signed(key, Itoa(NowSeconds), b, NowTicks) :
        b \in {FormBody("echo a b", Hook1, ""), FormBody("boom x", Hook2, ""),
               FormBody("echo a", ":bad", ""), FormBody("nosuch", Hook1, "")}}
        \cup {[Signed(key, Itoa(NowSeconds), FormBody("echo a b", Hook1, ""), NowTicks)
                 EXCEPT !.method = "GET"]}

Scenarios == {"mixed", "texts", "clock", "signatures", "live"}

\* The requests that may arrive in each scenario.
Inbound ==
    [sc \in Scenarios |-> [key \in ConfiguredKeys |->
        CASE sc = "mixed"      -> PlatformRequests(key) \cup OtherRequests(key)
          [] sc = "texts"      -> TextRequests(key)
          [] sc = "clock"      -> ClockRequests(key)
          [] sc = "signatures" -> SignatureRequests(key)
          [] sc = "live"       -> LiveRequests(key)]]

NoRequest == Request("", "", "", "", "", FALSE, 0)

\* ------------------------------------------------------------- state
Requests == {"r1", "r2"}

VARIABLES
    signingKey,        \* SlackBot.signingKey
    handlers,          \* SlackBot.handlers, the registry
    req,               \* the inbound request a handler invocation serves
    pc,                \* where each handler invocation stands
    acked,             \* w.WriteHeader(http.StatusOK) was called
    slashCommandBody,  \* the decoded form
    command,           \* the command name
    commandArguments,  \* the arguments
    response,          \* the reply to deliver
    trace,             \* the steps each invocation has taken, in order
    handleCalls,       \* the Handle calls made: handler index and arguments
    respondCalls,      \* the Respond calls made: URL, reply, error returned
    posts,             \* the client.Do calls made: URL, body, how it ended
    logs,              \* the records written to the logger
    cursor,            \* the index the loop over the handlers stands at
    scenario,          \* which requests the environment sends
    startupLogs,       \* the records main writes to the logger at startup
    bytesCompared,     \* the bytes the signature comparison looked at
    written            \* the calls made on the http.ResponseWriter

vars == <<signingKey, handlers, req, pc, acked, slashCommandBody, command,
          commandArguments, response, trace, handleCalls, respondCalls,
          posts, logs, cursor, scenario, startupLogs, bytesCompared, written>>

botVars == <<signingKey, handlers, scenario, startupLogs>>

\* The mixed and the live scenario handle two requests at a time, the
\* others one.
Slots(sc) == IF sc \in {"mixed", "live"} THEN Requests ELSE {"r1"}

FirstStepAcknowledges == "ack"
AfterVerifiedParses == "parse"
AfterAcknowledgedBlocks == "blocked"
CursorAfterRespondNoBreak(i, n) == i + 1

\* Where the handler goes next: after bot.go:65, after the checks of
\* bot.go:66-130 have passed, after bot.go:133.
FirstStep == "verify"
AfterVerified == "ack"
AfterAcknowledged == "parse"

\* bot.go:186: the break leaves the loop over the n handlers once the
\* handler at index i has been served.
CursorAfterRespond(i, n) == n + 1

IsSSLCheckOnlyWithoutText(body) == body.SSLCheck = "1" /\ body.Text = ""

\* bot.go:156: slashCommandBody.SSLCheck == "1"
IsSSLCheck(body) == body.SSLCheck = "1"

FormErrorIgnored(form) == FALSE

\* bot.go:139-143: the error r.ParseForm() returns.
FormError(form) == form.err

\* http.StatusOK
StatusOK == 200

\* The calls a handler makes on its http.ResponseWriter.
WriteHeader(statusCode) == [call |-> "WriteHeader", statusCode |-> statusCode, data |-> ""]

RejectionWritesReason(checks) ==
    <<WriteHeader(400 + Len(checks)),
      [call |-> "Write", statusCode |-> 0, data |-> checks[Len(checks)]]>>

\* bot.go:66-130: each failed check logs and returns; the handler calls
\* nothing on w.
RejectionWrites(checks) == <<>>

EmptyBody == DecodeBody(<<>>)

LogRecord(msg, fields) == [msg |-> msg, fields |-> fields]

VerificationEvaluatesAll(q, key) ==
    LET ts == ParseInt(q.timestamp)
        ok == /\ q.method = "POST" /\ q.contentType = FormContentType
              /\ Len(q.signature) # 0 /\ Len(q.timestamp) # 0
              /\ ~ts.err /\ ~OutsideReplayWindow(q.nowTicks, ts.val) /\ ~q.readErr
              /\ SignatureMatches(ComputeSignature(key, q.timestamp, q.body), q.signature)
    IN  [ok |-> ok,
         checks |-> <<"method", "contentType", "signatureHeader", "timestampHeader",
                      "parseInt", "replayWindow", "readBody", "signature">>,
         log |-> IF ok THEN <<>> ELSE <<LogRecord("request rejected", <<>>)>>]

\* bot.go:66-130, the checks in the order the handler makes them.  checks
\* lists the checks evaluated, log is the record written on rejection.
Verification(q, key) ==
    LET ts       == ParseInt(q.timestamp)
        computed == ComputeSignature(key, q.timestamp, q.body)
        Rejected(checks, msg, fields) ==
            [ok |-> FALSE, checks |-> checks, log |-> <<LogRecord(msg, fields)>>]
    IN  IF q.method # "POST"
        THEN Rejected(<<"method">>, "incorrect request method",
                      <<<<"method", q.method>>>>)
        ELSE IF q.contentType # FormContentType
        THEN Rejected(<<"method", "contentType">>, "incorrect content-type",
                      <<<<"contentType", q.contentType>>>>)
        ELSE IF Len(q.signature) = 0
        THEN Rejected(<<"method", "contentType", "signatureHeader">>,
                      "missing request x-slack-signature-header", <<>>)
        ELSE IF Len(q.timestamp) = 0
        THEN Rejected(<<"method", "contentType", "signatureHeader", "timestampHeader">>,
                      "missing request x-slack-request-timestamp header", <<>>)
        ELSE IF ts.err
        THEN Rejected(<<"method", "contentType", "signatureHeader", "timestampHeader",
                        "parseInt">>,
                      "timestamp header could not be converted to a UNIX epoch",
                      <<<<"error", "invalid syntax">>>>)
        ELSE IF OutsideReplayWindow(q.nowTicks, ts.val)
        THEN Rejected(<<"method", "contentType", "signatureHeader", "timestampHeader",
                        "parseInt", "replayWindow">>,
                      "timestamp header is not within five minutes of current timestamp",
                      <<>>)
        ELSE IF q.readErr
        THEN Rejected(<<"method", "contentType", "signatureHeader", "timestampHeader",
                        "parseInt", "replayWindow", "readBody">>,
                      "unable to parse request body", <<<<"error", "read">>>>)
        ELSE IF ~SignatureMatches(computed, q.signature)
        THEN Rejected(<<"method", "contentType", "signatureHeader", "timestampHeader",
                        "parseInt", "replayWindow", "readBody", "signature">>,
                      "computed signature and provided signature do not match",
                      <<<<"computed", computed>>, <<"provided", q.signature>>>>)
        ELSE [ok |-> TRUE,
              checks |-> <<"method", "contentType", "signatureHeader", "timestampHeader",
                           "parseInt", "replayWindow", "readBody", "signature">>,
              log |-> <<>>]

\* ------------------------------------------------------------- actions
\* main, part_001:60 and 64: the records written before the server listens.
StartupLogs(key) ==
    <<LogRecord("config", <<<<"port", "8080">>, <<"slack.signingkey", key>>>>),
      LogRecord("starting server", <<<<"port", "8080">>>>)>>

\* main, NewSlackBot and ListenAndServe, part_001:60-65 and bot.go:47-62:
\* the bot as constructed, with no request in flight.
InitBot(sc, suppliedLists) ==
    /\ scenario = sc
    /\ signingKey \in ConfiguredKeys
    /\ startupLogs = StartupLogs(signingKey)
    /\ \E supplied \in suppliedLists : handlers = NewSlackBotHandlers(supplied)
    /\ req = [r \in Requests |-> NoRequest]
    /\ pc = [r \in Requests |-> "idle"]
    /\ acked = [r \in Requests |-> FALSE]
    /\ slashCommandBody = [r \in Requests |-> EmptyBody]
    /\ command = [r \in Requests |-> ""]
    /\ commandArguments = [r \in Requests |-> <<>>]
    /\ response = [r \in Requests |-> NilResponse]
    /\ trace = [r \in Requests |-> <<>>]
    /\ handleCalls = [r \in Requests |-> <<>>]
    /\ respondCalls = [r \in Requests |-> <<>>]
    /\ posts = [r \in Requests |-> <<>>]
    /\ logs = [r \in Requests |-> <<>>]
    /\ cursor = [r \in Requests |-> 1]
    /\ bytesCompared = [r \in Requests |-> 0]
    /\ written = [r \in Requests |-> <<>>]

Init == InitBot("mixed", SuppliedHandlers)

\* The HTTP server starts the handler on a request: bot.go:60, 65.
Receive(r) ==
    /\ r \in Slots(scenario)
    /\ pc[r] = "idle"
    /\ \E q \in Inbound[scenario][signingKey] : req' = [req EXCEPT ![r] = q]
    /\ pc' = [pc EXCEPT ![r] = FirstStep]
    /\ UNCHANGED <<botVars, acked, slashCommandBody, command, commandArguments,
                   response, trace, handleCalls, respondCalls, posts, logs, cursor,
                   bytesCompared, written>>

\* bot.go:66-130: the request is checked; a failed check is logged and ends
\* the handler.
VerifyRequest(r) ==
    /\ pc[r] = "verify"
    /\ LET v == Verification(req[r], signingKey)
           computed == ComputeSignature(signingKey, req[r].timestamp, req[r].body)
           compared == \E i \in 1 .. Len(v.checks) : v.checks[i] = "signature"
       IN
        /\ trace' = [trace EXCEPT ![r] = @ \o v.checks]
        /\ logs' = [logs EXCEPT ![r] = @ \o v.log]
        /\ pc' = [pc EXCEPT ![r] = IF v.ok THEN AfterVerified ELSE "done"]
        /\ \E n \in (IF compared THEN BytesExamined(computed, req[r].signature)
                      ELSE {0}) :
              bytesCompared' = [bytesCompared EXCEPT ![r] = n]
        /\ written' = [written EXCEPT ![r] =
                          IF v.ok THEN @ ELSE @ \o RejectionWrites(v.checks)]
    /\ UNCHANGED <<botVars, req, acked, slashCommandBody, command,
                   commandArguments, response, handleCalls, respondCalls, posts,
                   cursor>>

\* bot.go:132-133: w.WriteHeader(http.StatusOK)
Acknowledge(r) ==
    /\ pc[r] = "ack"
    /\ acked' = [acked EXCEPT ![r] = TRUE]
    /\ written' = [written EXCEPT ![r] = Append(@, WriteHeader(StatusOK))]
    /\ trace' = [trace EXCEPT ![r] = Append(@, "ack")]
    /\ pc' = [pc EXCEPT ![r] = AfterAcknowledged]
    /\ UNCHANGED <<botVars, req, slashCommandBody, command, commandArguments,
                   response, handleCalls, respondCalls, posts, logs, cursor,
                   bytesCompared>>

\* bot.go:135-169: the form is parsed and decoded, an SSL check ends the
\* handler, the text is split into the command and its arguments.  Decoding
\* a map of strings into the string fields of SlackSlashCommandBody does not
\* fail, so the branch of bot.go:150-153 is not taken; the requests here
\* carry no query string, which ParseForm would add to the form.
ParseBody(r) ==
    /\ pc[r] = "parse"
    /\ \E form \in {ParseQuery(req[r].body)} :
       \E body \in {DecodeBody(form.pairs)} :
       \E split \in {SplitCommandText(body.Text)} :
           IF FormError(form)
           THEN /\ logs' = [logs EXCEPT ![r] =
                                Append(@, LogRecord("unable to parse form values",
                                                    <<<<"error", "invalid URL escape">>>>))]
                /\ trace' = [trace EXCEPT ![r] = Append(@, "parseForm")]
                /\ pc' = [pc EXCEPT ![r] = "done"]
                /\ UNCHANGED <<slashCommandBody, command, commandArguments>>
           ELSE /\ slashCommandBody' = [slashCommandBody EXCEPT ![r] = body]
                /\ logs' = logs
                /\ IF IsSSLCheck(body)
                   THEN /\ trace' = [trace EXCEPT ![r] =
                                        @ \o <<"parseForm", "decode", "sslCheck">>]
                        /\ pc' = [pc EXCEPT ![r] = "done"]
                        /\ UNCHANGED <<command, commandArguments>>
                   ELSE /\ trace' = [trace EXCEPT ![r] =
                                        @ \o <<"parseForm", "decode", "sslCheck", "split">>]
                        /\ command' = [command EXCEPT ![r] = CommandOf(split)]
                        /\ commandArguments' =
                               [commandArguments EXCEPT ![r] = ArgumentsOf(split)]
                        /\ pc' = [pc EXCEPT ![r] = "dispatch"]
    /\ UNCHANGED <<botVars, req, acked, response, handleCalls, respondCalls,
                   posts, cursor, bytesCompared, written>>

\* bot.go:171-181: the loop runs to the first handler, from the cursor on,
\* whose name is command; the handler is invoked and its result, or its
\* error, becomes the response.  Without a match the loop and the handler end.
Dispatch(r) ==
    /\ pc[r] = "dispatch"
    /\ LET i == FirstMatch(handlers, command[r], cursor[r]) IN
        IF i = 0
        THEN /\ pc' = [pc EXCEPT ![r] = "done"]
             /\ cursor' = [cursor EXCEPT ![r] = Len(handlers) + 1]
             /\ UNCHANGED <<handlers, response, trace, handleCalls>>
        ELSE LET result == Handle(handlers[i], commandArguments[r],
                                  slashCommandBody[r], handlers)
             IN  /\ handleCalls' = [handleCalls EXCEPT ![r] =
                        Append(@, [handler |-> i, arguments |-> commandArguments[r],
                                   isErr |-> result.isErr, errText |-> result.errText])]
                 /\ handlers' = RegistryAfterHandle(handlers[i], handlers)
                 /\ response' = [response EXCEPT ![r] = ResponseFor(result)]
                 /\ trace' = [trace EXCEPT ![r] = Append(@, "handle")]
                 /\ cursor' = [cursor EXCEPT ![r] = i]
                 /\ pc' = [pc EXCEPT ![r] = "respond"]
    /\ UNCHANGED <<signingKey, scenario, startupLogs, req, acked, slashCommandBody,
                   command, commandArguments, respondCalls, posts, logs,
                   bytesCompared, written>>

\* bot.go:182-186 and Respond, bot.go:192-215: the reply is marshalled and
\* posted once to the callback URL; an error is logged; the loop is left.
RespondReply(r) ==
    /\ pc[r] = "respond"
    /\ LET url == slashCommandBody[r].ResponseURL
           nxt == CursorAfterRespond(cursor[r], Len(handlers))
       IN
       \E outcome \in DoOutcomes(url) :
        /\ respondCalls' = [respondCalls EXCEPT ![r] =
                Append(@, [url |-> url, response |-> response[r],
                           err |-> RespondError(url, outcome)])]
        /\ IF NewRequestFails(url)
           THEN /\ posts' = posts
                /\ trace' = [trace EXCEPT ![r] = Append(@, "respond")]
           ELSE /\ posts' = [posts EXCEPT ![r] =
                        Append(@, [url |-> url, body |-> Marshal(response[r]),
                                   outcome |-> outcome])]
                /\ trace' = [trace EXCEPT ![r] = @ \o <<"respond", "post">>]
        /\ logs' = [logs EXCEPT ![r] =
                IF RespondError(url, outcome)
                THEN Append(@, LogRecord("could not send error message",
                                         <<<<"error", "respond">>>>))
                ELSE @]
        /\ cursor' = [cursor EXCEPT ![r] = nxt]
        /\ pc' = [pc EXCEPT ![r] = IF nxt > Len(handlers) THEN "done" ELSE "dispatch"]
    /\ UNCHANGED <<botVars, req, acked, slashCommandBody, command,
                   commandArguments, response, handleCalls, bytesCompared, written>>

Next ==
    \E r \in Requests :
        \/ Receive(r)
        \/ VerifyRequest(r)
        \/ Acknowledge(r)
        \/ ParseBody(r)
        \/ Dispatch(r)
        \/ RespondReply(r)

\* Requests of every kind, two at a time.
Spec == Init /\ [][Next]_vars

\* Every short command text, signed by the platform.
InitTexts == InitBot("texts", TextHandlers)
SpecTexts == InitTexts /\ [][Next]_vars

\* Timestamps around the ends of the replay window.
InitClock == InitBot("clock", {<<EchoHandler>>})
SpecClock == InitClock /\ [][Next]_vars

\* Timestamp, body and signature headers in every combination.
InitSignatures == InitBot("signatures", {<<EchoHandler>>})
SpecSignatures == InitSignatures /\ [][Next]_vars

\* Two requests at a time, every handler invocation the server has started
\* being run on: the server runs each invocation on a goroutine of its own,
\* which the scheduler keeps running, and the calls a step makes (Handle,
\* client.Do) return.  Nothing is assumed about the arrival of requests.
InitLive == InitBot("live", {<<EchoHandler, BoomHandler>>})
SpecLive ==
    /\ InitLive
    /\ [][Next]_vars
    /\ \A r \in Requests :
          WF_vars(\/ VerifyRequest(r) \/ Acknowledge(r) \/ ParseBody(r)
                  \/ Dispatch(r) \/ RespondReply(r))

\* ------------------------------------------------------------- properties
Has(seq, x) == \E i \in 1 .. Len(seq) : seq[i] = x

\* x occurs in seq only after an occurrence of y.
OnlyAfter(seq, x, y) ==
    \A i \in 1 .. Len(seq) : seq[i] = x => \E j \in 1 .. (i - 1) : seq[j] = y

\* The signature the platform's scheme prescribes for key, timestamp, body.
PrescribedSignature(key, timestamp, body) ==
    "v0=" \o HmacSha256Hex(key, "v0:" \o timestamp \o ":" \o body)

\* The request passes each of the checks of the verifier.
PassesEveryCheck(q) ==
    /\ q.method = "POST"
    /\ q.contentType = "application/x-www-form-urlencoded"
    /\ q.signature # ""
    /\ q.timestamp # ""
    /\ ~ParseInt(q.timestamp).err
    /\ Abs(q.nowTicks - ParseInt(q.timestamp).val * TicksPerSecond) <= 300 * TicksPerSecond
    /\ q.signature = PrescribedSignature(signingKey, q.timestamp, q.body)

Served(r) == handleCalls[r] # <<>> \/ respondCalls[r] # <<>> \/ posts[r] # <<>>

\* C1: a handler is invoked and a reply is posted for a request only if the
\* request passes every verification check; a request that fails a check
\* causes no handler invocation and no outbound call.
C1_OnlyVerifiedRequestsAreServed ==
    \A r \in Requests : Served(r) => PassesEveryCheck(req[r])

C1_Witness ==
    \E r1, r2 \in Requests :
        /\ pc[r1] = "done" /\ handleCalls[r1] # <<>> /\ posts[r1] # <<>>
        /\ pc[r2] = "done" /\ ~PassesEveryCheck(req[r2]) /\ ~Served(r2)
        /\ req[r2].method = "POST" /\ req[r2].signature # ""

\* The request got past the signature comparison.
Accepted(r) == Has(trace[r], "signature") /\ (pc[r] = "ack" \/ acked[r])

\* q with its body, its timestamp header or its signature header changed to
\* another value, the other two kept.
SingleChanges(q) ==
    {[q EXCEPT !.body = b] : b \in SignatureBodies \ {q.body}}
        \cup {[q EXCEPT !.timestamp = t] : t \in SignatureTimestamps \ {q.timestamp}}
        \cup {[q EXCEPT !.signature = g] : g \in SignatureHeaders(signingKey) \ {q.signature}}

\* C2: a request that reaches the signature check is accepted exactly when
\* its signature header is "v0=" + hex(HMAC-SHA256(key, "v0:" + T + ":" + B));
\* an accepted request with its body, timestamp header or signature header
\* changed to a different value does not verify.
C2_SignatureCheck ==
    \A r \in Requests :
        /\ Has(trace[r], "signature") =>
              (Accepted(r) <=>
                 req[r].signature =
                    PrescribedSignature(signingKey, req[r].timestamp, req[r].body))
        /\ Accepted(r) =>
              \A q \in SingleChanges(req[r]) : ~Verification(q, signingKey).ok

C2_Witness ==
    \E r \in Requests :
        /\ acked[r]
        /\ req[r].timestamp = "+" \o Itoa(NowSeconds)
        /\ req[r].body = "1:x"

\* C3: a request that reaches the replay check passes it exactly when the
\* clock reading and the parsed timestamp differ by at most 300 seconds, in
\* either direction.
C3_ReplayWindow ==
    \A r \in Requests :
        Has(trace[r], "replayWindow") =>
            LET ts   == ParseInt(req[r].timestamp).val
                diff == Abs(req[r].nowTicks - ts * TicksPerSecond)
            IN  Has(trace[r], "readBody") <=> diff <= 300 * TicksPerSecond

C3_Witness ==
    \E r \in Requests :
        /\ acked[r]
        /\ ParseInt(req[r].timestamp).val * TicksPerSecond - req[r].nowTicks
              = 300 * TicksPerSecond

\* C4: the handler invocation and the outbound reply of a request come
\* after the acknowledgment of that request.
C4_AckBeforeDispatch ==
    \A r \in Requests :
        /\ OnlyAfter(trace[r], "handle", "ack")
        /\ OnlyAfter(trace[r], "respond", "ack")
        /\ OnlyAfter(trace[r], "post", "ack")

C4_Witness ==
    \E r \in Requests :
        Has(trace[r], "ack") /\ Has(trace[r], "handle") /\ Has(trace[r], "post")

\* C5 as stated: the acknowledgment is written only once the form has been
\* parsed.
C5_ParsedBeforeAck ==
    \A r \in Requests : acked[r] => Has(trace[r], "parseForm")

\* C5, amended: the acknowledgment is written only once every verification
\* check has passed, and the form is parsed and decoded only after the
\* acknowledgment.
C5_VerifiedBeforeAckParsedAfter ==
    \A r \in Requests :
        /\ OnlyAfter(trace[r], "ack", "signature")
        /\ acked[r] => PassesEveryCheck(req[r])
        /\ OnlyAfter(trace[r], "parseForm", "ack")
        /\ OnlyAfter(trace[r], "decode", "ack")

C5_Witness ==
    \E r \in Requests :
        acked[r] /\ pc[r] = "parse" /\ ~Has(trace[r], "parseForm")

\* C6: at most one reply is handed to Respond and at most one POST is made
\* for a request, also when the delivery fails and when several handlers
\* bear the command's name.
C6_AtMostOneReply ==
    \A r \in Requests : Len(respondCalls[r]) <= 1 /\ Len(posts[r]) <= 1

C6_Witness ==
    \E r \in Requests :
        /\ pc[r] = "done"
        /\ Len(posts[r]) = 1 /\ posts[r][1].outcome.err
        /\ Cardinality({i \in 1 .. Len(handlers) : handlers[i].name = command[r]}) >= 2

\* C7: an empty text resolves to the command name "help" with no arguments.
C7_EmptyTextIsHelp ==
    \A r \in Requests :
        Has(trace[r], "split") /\ slashCommandBody[r].Text = "" =>
            command[r] = "help" /\ commandArguments[r] = <<>>

\* C8: the command name used for the handler lookup is never empty.
C8_CommandNameNotEmpty ==
    \A r \in Requests : Has(trace[r], "split") => command[r] # ""

\* Non-empty tokens separated by single spaces.
RECURSIVE NoEmptyToken(_)
NoEmptyToken(text) ==
    /\ text # ""
    /\ Head(text) # " "
    /\ LET i == Index(text, " ")
       IN  i # 0 => NoEmptyToken(SubSeq(text, i + 1, Len(text)))

\* C9: for a text of non-empty tokens separated by single spaces, the
\* command is the first token, the arguments are the other tokens in order,
\* and the handler invoked, if any, bears exactly that name and gets
\* exactly those arguments.
C9_FirstTokenIsCommand ==
    \A r \in Requests :
        LET text == slashCommandBody[r].Text
            args == commandArguments[r]
        IN  Has(trace[r], "split") /\ NoEmptyToken(text) =>
              /\ text = Join(<<command[r]>> \o args, " ")
              /\ Index(command[r], " ") = 0 /\ command[r] # ""
              /\ \A i \in 1 .. Len(args) : args[i] # "" /\ Index(args[i], " ") = 0
              /\ text = "echo hello world" =>
                    command[r] = "echo" /\ args = <<"hello", "world">>
              /\ \A i \in 1 .. Len(handleCalls[r]) :
                    /\ handlers[handleCalls[r][i].handler].name = command[r]
                    /\ handleCalls[r][i].arguments = args
              /\ pc[r] \in {"respond", "done"} =>
                    (handleCalls[r] # <<>> <=>
                        \E i \in 1 .. Len(handlers) : handlers[i].name = command[r])

C9_Witness ==
    \E r \in Requests :
        /\ slashCommandBody[r].Text = "echo hello world"
        /\ Len(handleCalls[r]) = 1
        /\ handlers[handleCalls[r][1].handler].name = "echo"
        /\ handleCalls[r][1].arguments = <<"hello", "world">>

\* C10: when Handle returns an error, one reply is handed to Respond, it is
\* ephemeral, its text is the error's message, it goes to the request's
\* callback URL, and it is posted as a reply of a handler is.
C10_HandlerErrorReply ==
    \A r \in Requests :
        pc[r] = "done" /\ handleCalls[r] # <<>> /\ handleCalls[r][1].isErr =>
            LET url == slashCommandBody[r].ResponseURL
                msg == handleCalls[r][1].errText
            IN  /\ Len(respondCalls[r]) = 1
                /\ respondCalls[r][1].url = url
                /\ ~respondCalls[r][1].response.nil
                /\ respondCalls[r][1].response.ResponseType = "ephemeral"
                /\ respondCalls[r][1].response.Text = msg
                /\ Len(posts[r]) <= 1
                /\ url \in {Hook1, Hook2} => Len(posts[r]) = 1
                /\ \A i \in 1 .. Len(posts[r]) :
                      /\ posts[r][i].url = url
                      /\ posts[r][i].body =
                            "{\"response_type\":\"ephemeral\",\"text\":\"" \o msg \o "\"}"

C10_Witness ==
    \E r \in Requests :
        /\ pc[r] = "done"
        /\ handleCalls[r] # <<>> /\ handleCalls[r][1].isErr
        /\ Len(posts[r]) = 1 /\ posts[r][1].outcome.status = 200

\* The command matches the name of no handler of the registry.
Unregistered(name) == \A i \in 1 .. Len(handlers) : handlers[i].name # name

\* C11: a verified request whose command name is the name of no registered
\* handler is acknowledged, and no handler is invoked and no reply is handed
\* to Respond or posted for it.
C11_UnknownCommandIsSilent ==
    \A r \in Requests :
        Has(trace[r], "split") /\ Unregistered(command[r]) =>
            /\ PassesEveryCheck(req[r])
            /\ acked[r]
            /\ pc[r] \in {"dispatch", "done"}
            /\ handleCalls[r] = <<>>
            /\ respondCalls[r] = <<>>
            /\ posts[r] = <<>>

C11_Witness ==
    \E r \in Requests :
        /\ pc[r] = "done" /\ cursor[r] = Len(handlers) + 1
        /\ slashCommandBody[r].Text = "nosuch" /\ command[r] = "nosuch"
        /\ acked[r] /\ ~Served(r)

\* The form body carries the pair, as one of its "&"-separated settings.
HasFormPair(body, pair) == Has(Split(body, "&"), pair)

\* C12: a verified request whose ssl_check field is "1" is acknowledged, and
\* no handler is invoked and no reply is sent for it, also when its text
\* names a registered command.
C12_SSLCheckShortCircuits ==
    \A r \in Requests :
        PassesEveryCheck(req[r]) /\ HasFormPair(req[r].body, "ssl_check=1") =>
            /\ ~Served(r)
            /\ pc[r] \notin {"dispatch", "respond"}
            /\ ~Has(trace[r], "split")
            /\ pc[r] = "done" => acked[r]

C12_Witness ==
    \E r \in Requests :
        /\ pc[r] = "done" /\ acked[r] /\ Has(trace[r], "sslCheck")
        /\ HasFormPair(req[r].body, "ssl_check=1")
        /\ HasFormPair(req[r].body, "text=echo+a")
        /\ handlers[1].name = "echo"
        /\ ~Served(r)

\* C13: at most one handler is invoked for a request; the handler invoked
\* is the first of the registry, in registration order, that bears the
\* command's name, and a request whose command some handler bears gets
\* exactly one invocation.
C13_FirstMatchOnly ==
    \A r \in Requests :
        /\ Len(handleCalls[r]) <= 1
        /\ \A k \in 1 .. Len(handleCalls[r]) :
              LET i == handleCalls[r][k].handler
              IN  /\ handlers[i].name = command[r]
                  /\ \A j \in 1 .. (i - 1) : handlers[j].name # command[r]
        /\ Has(trace[r], "split") /\ pc[r] \in {"respond", "done"}
              /\ ~Unregistered(command[r])
              => Len(handleCalls[r]) = 1

C13_Witness ==
    \E r \in Requests :
        /\ pc[r] = "done" /\ command[r] = "help"
        /\ Len(handlers) = 5
        /\ handlers[4].name = "help" /\ handlers[5].name = "help"
        /\ Len(handleCalls[r]) = 1 /\ handleCalls[r][1].handler = 4
        /\ Len(posts[r]) = 1

\* The two lines the help text gives a handler.
HelpEntry(handler) ==
    handler.name \o " " \o handler.arguments \o "\n" \o handler.description \o "\n"

\* The entries of the handlers at the indices of registry that are in keep,
\* in registration order, one blank line between consecutive entries.
HelpListing(registry, keep) ==
    LET RECURSIVE Entries(_)
        Entries(i) ==
            IF i > Len(registry) THEN <<>>
            ELSE (IF i \in keep THEN <<HelpEntry(registry[i])>> ELSE <<>>)
                    \o Entries(i + 1)
    IN  Join(Entries(1), "\n")

\* The request was served by the help handler NewSlackBot appends.
HelpInvoked(r) ==
    /\ pc[r] = "done"
    /\ handleCalls[r] # <<>>
    /\ handlers[handleCalls[r][1].handler].kind = "help"

\* One ephemeral reply went to the request's callback URL, with the text.
RepliedEphemeral(r, text) ==
    /\ Len(respondCalls[r]) = 1
    /\ respondCalls[r][1].url = slashCommandBody[r].ResponseURL
    /\ ~respondCalls[r][1].response.nil
    /\ respondCalls[r][1].response.ResponseType = "ephemeral"
    /\ respondCalls[r][1].response.Text = text
    /\ Len(posts[r]) = 1
    /\ posts[r][1].url = slashCommandBody[r].ResponseURL

\* C14 as stated: the help reply lists every registered handler except the
\* help handler itself.
C14_HelpListsOtherHandlers ==
    \A r \in Requests :
        HelpInvoked(r) =>
            RepliedEphemeral(r,
                HelpListing(handlers,
                            (1 .. Len(handlers)) \ {handleCalls[r][1].handler}))

\* C14, amended: the help reply is one ephemeral reply whose text lists
\* every registered handler, the help handler itself included, in
\* registration order, as the line "name arguments" and the line
\* "description", one blank line between consecutive entries; with echo
\* registered first the text starts with echo's two lines.
C14_HelpListsEveryHandler ==
    \A r \in Requests :
        HelpInvoked(r) =>
            LET text == respondCalls[r][1].response.Text
                echo == "echo [words...]\n"
                          \o "Accepts any number of arguments and echoes them back to the channel\n"
            IN  /\ command[r] = "help"
                /\ RepliedEphemeral(r, HelpListing(handlers, 1 .. Len(handlers)))
                /\ Len(handlers) >= 1 /\ handlers[1].name = "echo" =>
                      /\ Len(text) > Len(echo)
                      /\ SubSeq(text, 1, Len(echo)) = echo

C14_Witness ==
    \E r \in Requests :
        /\ HelpInvoked(r)
        /\ slashCommandBody[r].Text = "help"
        /\ Len(handlers) = 2 /\ handlers[1].name = "echo"
        /\ Len(posts[r]) = 1 /\ posts[r][1].outcome.status = 200
        /\ respondCalls[r][1].response.Text =
              "echo [words...]\n"
              \o "Accepts any number of arguments and echoes them back to the channel\n"
              \o "\n"
              \o "help \n"
              \o "Displays a list of the available commands, their arguments, and their description\n"

\* The reply of the request reached the callback endpoint, which answered
\* with a 2xx status.
Delivered(r) ==
    \E i \in 1 .. Len(posts[r]) :
        /\ ~posts[r][i].outcome.err
        /\ posts[r][i].outcome.status \in 200 .. 299

\* C15: Respond returns an error exactly when the reply was not delivered
\* with a 2xx answer: on a network error and on a non-2xx status.
C15_RespondReportsFailure ==
    \A r \in Requests :
        \A k \in 1 .. Len(respondCalls[r]) :
            respondCalls[r][k].err <=> ~Delivered(r)

\* The form body holds a percent sign that two hex digits do not follow.
HasBadEscape(body) ==
    \E i \in 1 .. Len(body) :
        /\ Char(body, i) = "%"
        /\ \/ i + 2 > Len(body)
           \/ Char(body, i + 1) \notin HexDigits
           \/ Char(body, i + 2) \notin HexDigits

\* The handling of the request ended at the failed r.ParseForm().
ParseFailed(r) ==
    /\ PassesEveryCheck(req[r]) /\ HasBadEscape(req[r].body)
    /\ Has(trace[r], "parseForm")

\* C16: a verified request whose form body does not parse is acknowledged,
\* no handler is invoked and no reply is sent for it, and after its failure
\* the server still takes up a request on a connection that is idle.
C16_ParseFailureNotDispatched ==
    \A r \in Requests :
        PassesEveryCheck(req[r]) /\ HasBadEscape(req[r].body) =>
            /\ ~Served(r)
            /\ pc[r] \notin {"dispatch", "respond"}
            /\ ~Has(trace[r], "decode") /\ ~Has(trace[r], "split")
            /\ Has(trace[r], "parseForm") =>
                  /\ acked[r] /\ pc[r] = "done"
                  /\ \A o \in Slots(scenario) \ {r} :
                        pc[o] = "idle" => ENABLED Receive(o)

C16_Witness ==
    \E r, o \in Requests :
        /\ ParseFailed(r) /\ pc[r] = "done" /\ acked[r] /\ ~Served(r)
        /\ HasFormPair(req[r].body, "text=echo+a") /\ handlers[1].name = "echo"
        /\ o # r /\ pc[o] = "done" /\ Len(posts[o]) = 1

\* Some field of some record holds the value.
LoggedValue(records, value) ==
    \E i \in 1 .. Len(records) :
        \E j \in 1 .. Len(records[i].fields) : records[i].fields[j][2] = value

\* C17: the value of the signing secret is in no log record, at startup and
\* while requests are handled, and in no outbound request.  (The handler
\* writes a status line only to the HTTP response.)
C17_SecretNeverLoggedOrEchoed ==
    /\ ~LoggedValue(startupLogs, signingKey)
    /\ \A r \in Requests :
          /\ ~LoggedValue(logs[r], signingKey)
          /\ \A i \in 1 .. Len(posts[r]) :
                posts[r][i].url # signingKey /\ posts[r][i].body # signingKey

\* C18: the comparison of the computed signature with the signature header
\* looks at every byte of the two values, wherever their first difference
\* is: for a header of the computed signature's length it never stops early.
C18_ConstantTimeComparison ==
    \A r \in Requests :
        LET computed == PrescribedSignature(signingKey, req[r].timestamp, req[r].body)
        IN  Has(trace[r], "signature") /\ Len(req[r].signature) = Len(computed) =>
                bytesCompared[r] = Len(computed)

\* C19: with echo registered, a verified request whose text is "echo"
\* followed by words separated by single spaces gets exactly one POST, to
\* its callback URL, with the JSON body of an in_channel reply whose text is
\* the words joined by single spaces; "echo a b" gives
\* {"response_type":"in_channel","text":"a b"}.
C19_EchoEndToEnd ==
    \A r \in Requests :
        LET text  == slashCommandBody[r].Text
            url   == slashCommandBody[r].ResponseURL
            words == SubSeq(text, 6, Len(text))
        IN  /\ pc[r] = "done" /\ PassesEveryCheck(req[r])
            /\ \E i \in 1 .. Len(handlers) : handlers[i] = EchoHandler
            /\ Len(text) > 5 /\ SubSeq(text, 1, 5) = "echo " /\ NoEmptyToken(text)
            /\ ~HasFormPair(req[r].body, "ssl_check=1")
            /\ url # "" /\ Head(url) # ":"
            =>  /\ Len(handleCalls[r]) = 1
                /\ handlers[handleCalls[r][1].handler] = EchoHandler
                /\ Len(respondCalls[r]) = 1
                /\ Len(posts[r]) = 1
                /\ posts[r][1].url = url
                /\ posts[r][1].body =
                      "{\"response_type\":\"in_channel\",\"text\":\"" \o words \o "\"}"
                /\ req[r].body = FormBody("echo a b", Hook1, "") =>
                      /\ posts[r][1].url = "https://hooks/1"
                      /\ posts[r][1].body =
                            "{\"response_type\":\"in_channel\",\"text\":\"a b\"}"

C19_Witness ==
    \E r \in Requests :
        /\ pc[r] = "done"
        /\ req[r].body = FormBody("echo a b", Hook1, "")
        /\ handlers[1] = EchoHandler
        /\ handleCalls[r] # <<>> /\ handleCalls[r][1].arguments = <<"a", "b">>
        /\ Len(posts[r]) = 1
        /\ posts[r][1].outcome.status = 200
        /\ posts[r][1].body = "{\"response_type\":\"in_channel\",\"text\":\"a b\"}"

\* What the handling of request q ends in when nothing else is handled:
\* whether it is acknowledged, the Handle call and the Respond call made.
AloneOutcome(q, key, registry) ==
    LET v     == Verification(q, key)
        form  == ParseQuery(q.body)
        body  == DecodeBody(form.pairs)
        split == SplitCommandText(body.Text)
        i     == FirstMatch(registry, CommandOf(split), 1)
        quiet == [acked |-> v.ok, handleCalls |-> <<>>, respondCalls |-> <<>>]
    IN  IF ~v.ok \/ FormError(form) THEN quiet
        ELSE IF IsSSLCheck(body) \/ i = 0 THEN quiet
        ELSE LET result == Handle(registry[i], ArgumentsOf(split), body, registry)
             IN  [acked |-> TRUE,
                  handleCalls |-> <<[handler |-> i, arguments |-> ArgumentsOf(split)]>>,
                  respondCalls |-> <<[url |-> body.ResponseURL,
                                      response |-> ResponseFor(result)]>>]

\* The outcome the request in slot r has reached.
Outcome(r) ==
    [acked |-> acked[r],
     handleCalls |-> [k \in 1 .. Len(handleCalls[r]) |->
                        [handler |-> handleCalls[r][k].handler,
                         arguments |-> handleCalls[r][k].arguments]],
     respondCalls |-> [k \in 1 .. Len(respondCalls[r]) |->
                         [url |-> respondCalls[r][k].url,
                          response |-> respondCalls[r][k].response]]]

\* The variables of the handling of the request in slot r.
Locals(r) ==
    <<req[r], pc[r], acked[r], slashCommandBody[r], command[r], commandArguments[r],
      response[r], trace[r], handleCalls[r], respondCalls[r], posts[r], logs[r],
      cursor[r], bytesCompared[r], written[r]>>

\* The outcome of every request whose handling has ended is the one it has
\* when handled alone.
OutcomeAsAlone ==
    \A r \in Requests :
        pc[r] = "done" => Outcome(r) = AloneOutcome(req[r], signingKey, handlers)

\* A step writes neither the registry nor the signing secret, and it writes
\* the variables of one request's handling only.
StepWritesOwnLocals ==
    /\ handlers' = handlers
    /\ signingKey' = signingKey
    /\ \E r \in Requests : \A o \in Requests \ {r} : Locals(o)' = Locals(o)

\* C20: in every interleaving of the handling of concurrent requests, no step
\* writes the handler registry or the signing secret, a step of one request
\* leaves the other request's handling as it is, and the outcome of a
\* request (acknowledged or not, the handler invoked and its arguments, the
\* reply and the URL it goes to) is the one it has when handled alone.
C20_NoSharedWrites ==
    []OutcomeAsAlone /\ [][StepWritesOwnLocals]_vars

C20_Witness ==
    \E r, o \in Requests :
        /\ r # o
        /\ pc[r] = "done" /\ pc[o] = "done"
        /\ Len(handleCalls[r]) = 1 /\ handlers[handleCalls[r][1].handler].kind = "help"
        /\ Len(handleCalls[o]) = 1 /\ handlers[handleCalls[o][1].handler].kind = "echo"
        /\ Len(posts[r]) = 1 /\ Len(posts[o]) = 1
        /\ slashCommandBody[r].ResponseURL # slashCommandBody[o].ResponseURL

\* The registry is a supplied list, in its order, with one handler after it,
\* the synthesized help handler, which is nowhere else in the registry.
RegistryAsBuilt ==
    LET n == Len(handlers)
    IN  /\ n >= 1
        /\ SubSeq(handlers, 1, n - 1) \in SuppliedHandlers
        /\ handlers[n].kind = "help" /\ handlers[n].name = "help"
        /\ \A i \in 1 .. (n - 1) : handlers[i].kind # "help"

\* C21: the registry of a bot built by NewSlackBot is the supplied handlers,
\* in their order, followed by exactly one synthesized handler named "help",
\* also for the empty list, and no step changes the registry.
C21_RegistryBuiltOnce ==
    []RegistryAsBuilt /\ [][handlers' = handlers]_vars

C21_Witness ==
    /\ handlers = <<HelpHandler>>
    /\ \E r, o \in Requests :
          /\ r # o /\ pc[r] = "done" /\ pc[o] = "done"
          /\ Len(handleCalls[r]) = 1 /\ Len(posts[r]) = 1
          /\ acked[o] /\ handleCalls[o] = <<>>

\* The checks of the verifier in the order prescribed, the reading of the
\* body standing between the replay window and the signature.
CheckOrder ==
    <<"method", "contentType", "signatureHeader", "timestampHeader", "parseInt",
      "replayWindow", "readBody", "signature">>

\* Request q passes the check named c.
CheckPasses(q, c) ==
    CASE c = "method"          -> q.method = "POST"
      [] c = "contentType"     -> q.contentType = "application/x-www-form-urlencoded"
      [] c = "signatureHeader" -> q.signature # ""
      [] c = "timestampHeader" -> q.timestamp # ""
      [] c = "parseInt"        -> ~ParseInt(q.timestamp).err
      [] c = "replayWindow"    ->
            Abs(q.nowTicks - ParseInt(q.timestamp).val * TicksPerSecond)
                <= 300 * TicksPerSecond
      [] c = "readBody"        -> ~q.readErr
      [] c = "signature"       ->
            q.signature = PrescribedSignature(signingKey, q.timestamp, q.body)

\* The checks q fails.
FailedChecks(q) == {i \in 1 .. Len(CheckOrder) : ~CheckPasses(q, CheckOrder[i])}

\* The checks evaluated on q when the first failing one ends the processing.
ChecksUpToFirstFailure(q) ==
    IF FailedChecks(q) = {} THEN CheckOrder
    ELSE SubSeq(CheckOrder, 1,
                CHOOSE i \in FailedChecks(q) : \A j \in FailedChecks(q) : i <= j)

IsCheck(step) == \E i \in 1 .. Len(CheckOrder) : CheckOrder[i] = step

\* C22: the checks are evaluated in the order method, content type,
\* signature header, timestamp header, integer timestamp, replay window,
\* (body read,) signature; the first check that fails ends the processing,
\* and no later check is evaluated.
C22_ChecksInOrderFirstFailureStops ==
    \A r \in Requests :
        pc[r] \notin {"idle", "verify"} =>
            /\ SelectSeq(trace[r], IsCheck) = ChecksUpToFirstFailure(req[r])
            /\ FailedChecks(req[r]) # {} =>
                  /\ trace[r] = ChecksUpToFirstFailure(req[r])
                  /\ pc[r] = "done" /\ ~acked[r] /\ ~Served(r)
                  /\ Len(logs[r]) = 1

C22_Witness ==
    \E r \in Requests :
        /\ pc[r] = "done"
        /\ Cardinality(FailedChecks(req[r])) = 2
        /\ ~CheckPasses(req[r], "replayWindow") /\ ~CheckPasses(req[r], "signature")
        /\ Has(trace[r], "replayWindow")
        /\ ~Has(trace[r], "readBody") /\ ~Has(trace[r], "signature")

\* What the HTTP server sends for the calls a handler made on w before it
\* returned: the status of the first WriteHeader, or 200 when the handler
\* returns without one, and the data of the Write calls.
WireResponse(calls) ==
    LET headers == SelectSeq(calls, LAMBDA c : c.call = "WriteHeader")
        datas   == SelectSeq(calls, LAMBDA c : c.call = "Write")
    IN  [status |-> IF headers = <<>> THEN 200 ELSE headers[1].statusCode,
         body   |-> Join([i \in 1 .. Len(datas) |-> datas[i].data], "")]

\* The handling of the request ended at a failed verification check.
Rejected(r) == pc[r] = "done" /\ FailedChecks(req[r]) # {}

\* C23: for a request a verification check rejects, the handler writes
\* nothing to the response, so the response is the same whichever check
\* failed and has no body; the reason goes to the log, in one record.
C23_RejectionReasonOnlyInLog ==
    \A r \in Requests :
        Rejected(r) =>
            /\ written[r] = <<>>
            /\ WireResponse(written[r]).body = ""
            /\ Len(logs[r]) = 1
            /\ \A o \in Requests :
                  Rejected(o) => WireResponse(written[o]) = WireResponse(written[r])

C23_Witness ==
    \E r, o \in Requests :
        /\ Rejected(r) /\ Rejected(o)
        /\ ~CheckPasses(req[r], "method")
        /\ CheckPasses(req[o], "replayWindow") /\ ~CheckPasses(req[o], "signature")
        /\ Has(trace[o], "signature")
        /\ logs[r] # logs[o]
        /\ WireResponse(written[r]) = WireResponse(written[o])

\* The number of places in text where a space follows a space.
SpacePairs(text) ==
    Cardinality({i \in 2 .. Len(text) : Char(text, i - 1) = " " /\ Char(text, i) = " "})

\* The number of empty strings in a list of strings.
Empties(list) == Cardinality({i \in 1 .. Len(list) : list[i] = ""})

\* C24: the pieces the spaces of the text delimit are all kept, empty ones
\* included: for a text whose first byte is not a space, the command and
\* the arguments joined by single spaces give back the text, no argument
\* holds a space, a run of k spaces before a token leaves k-1 empty strings
\* in the arguments at that place, and the handler gets that list.
C24_EmptyArgumentsKept ==
    \A r \in Requests :
        LET text == slashCommandBody[r].Text
            args == commandArguments[r]
        IN  Has(trace[r], "split") /\ text # "" /\ Head(text) # " " =>
              /\ Join(<<command[r]>> \o args, " ") = text
              /\ \A i \in 1 .. Len(args) : Index(args[i], " ") = 0
              /\ Empties(args) =
                    SpacePairs(text) + (IF Char(text, Len(text)) = " " THEN 1 ELSE 0)
              /\ text = "echo a  b" => args = <<"a", "", "b">>
              /\ text = "echo a   b c" => args = <<"a", "", "", "b", "c">>
              /\ text = "a  a" => args = <<"", "a">>
              /\ \A k \in 1 .. Len(handleCalls[r]) : handleCalls[r][k].arguments = args

C24_Witness ==
    \E r \in Requests :
        /\ pc[r] = "done"
        /\ slashCommandBody[r].Text = "echo a   b c"
        /\ Len(handleCalls[r]) = 1
        /\ handleCalls[r][1].arguments = <<"a", "", "", "b", "c">>
        /\ Len(posts[r]) = 1

\* C25: every reply handed to Respond, and every body posted, has a
\* response_type that is "ephemeral" or "in_channel".
C25_ResponseTypeOneOfTwo ==
    \A r \in Requests :
        /\ \A k \in 1 .. Len(respondCalls[r]) :
              /\ ~respondCalls[r][k].response.nil
              /\ respondCalls[r][k].response.ResponseType \in {"ephemeral", "in_channel"}
        /\ \A k \in 1 .. Len(posts[r]) :
              \E kind \in {"ephemeral", "in_channel"} :
                  LET start == "{\"response_type\":\"" \o kind \o "\""
                  IN  /\ Len(posts[r][k].body) > Len(start)
                      /\ SubSeq(posts[r][k].body, 1, Len(start)) = start

\* The body of q parses, is no SSL check, and its command is the name of a
\* registered handler.
NamesRegisteredHandler(q) ==
    LET form == ParseQuery(q.body)
        body == DecodeBody(form.pairs)
    IN  /\ ~form.err
        /\ body.SSLCheck # "1"
        /\ ~Unregistered(CommandOf(SplitCommandText(body.Text)))

\* The request in slot r has passed verification and names a handler.
Dispatchable(r) ==
    /\ Has(trace[r], "signature") /\ PassesEveryCheck(req[r])
    /\ NamesRegisteredHandler(req[r])

\* The handling has ended after one Handle call and then one Respond call.
Completed(r) ==
    /\ pc[r] = "done"
    /\ Len(handleCalls[r]) = 1 /\ Len(respondCalls[r]) = 1
    /\ OnlyAfter(trace[r], "respond", "handle")

\* C26: a request that has passed verification and names a registered
\* handler eventually has had its handler invoked, then its one Respond
\* call made, and its handling ended; and the handling of every request
\* received ends, whatever happens to the other request (handler error,
\* failed delivery).
C26_AcceptedRequestsComplete ==
    \A r \in Requests :
        (pc[r] # "idle") ~> (pc[r] = "done" /\ (Dispatchable(r) => Completed(r)))

C26_Witness ==
    \E r, o \in Requests :
        /\ r # o
        /\ Dispatchable(r) /\ Completed(r) /\ posts[r] # <<>>
        /\ posts[r][1].outcome.status = 200
        /\ Dispatchable(o) /\ Completed(o)
        /\ handleCalls[o][1].isErr /\ respondCalls[o][1].err
====
